---------------------------- MODULE Spec2Model ----------------------------
(***************************************************************************)
(* The Application Automation Orchestrator of JobSlave:                    *)
(* JobScraperManager (processJobQueue, applyToJob, stop) driving the       *)
(* NaukriScraper (applyToJob, fillScreeningAnswer, submitApplication) and  *)
(* the screening answer resolver, with the injected event sink.            *)
(*                                                                         *)
(* JavaScript runs one synchronous segment at a time: the code between two *)
(* awaits is atomic.  Each action below is one such segment of one         *)
(* processJobQueue invocation: it starts when the awaited operation (a     *)
(* browser call, the LLM call, a delay) completes with an outcome chosen   *)
(* by the environment, and runs the code up to the next await.  Every      *)
(* callback of the event sink is a plain function call that either returns *)
(* or throws; which one is chosen per segment and per call site.           *)
(*                                                                         *)
(* Further specifications follow the parts of the program around the       *)
(* queue: the application form (SpecForm), waitForManualLogin (SpecLogin), *)
(* the routes that save listings (SpecJobs), getManager (SpecManager) and  *)
(* the routes that start and stop queue runs (SpecQueue).                  *)
(***************************************************************************)
EXTENDS Integers, Sequences, FiniteSets, TLC

\* Bounds of the model.
MaxJobs == 2          \* longest job list handed to processJobQueue
MaxContainers == 2    \* question containers on an application form

\* The largest maxApplicationsPerSession: a larger cap acts as this one.
MaxCap == MaxJobs

\* The processJobQueue invocations made on the manager.
Runs == {"A"}

\* The source names a caller may pass, and the ones initializeScrapers
\* registers a scraper for.
Sources == {"naukri", "indeed"}
Registered == {"naukri"}

\* The answer the resolver gives to question q-<id>, when it gives one.  The
\* manager passes the answer on unread, so one value per question, nonzero
\* (0 stands for "answer unset") and different for every question, stands
\* for any answer.
Reply(id) == id + 1

\* The call sites of the event sink's callbacks.
Callbacks ==
  { "qp",     \* onQueueProgress        (processJobQueue)
    "prog",   \* the caller's onProgress (processJobQueue)
    "qerr",   \* onError                (processJobQueue, catch)
    "sc",     \* onSessionComplete      (processJobQueue)
    "mlog",   \* onLog                  (manager.applyToJob, before/inside the question loop)
    "clog",   \* onLog                  (manager.applyToJob, per-question catch)
    "start",  \* onApplicationStart     (scraper.applyToJob)
    "alog",   \* onLog via this.log     (scraper.applyToJob, inside try)
    "done",   \* onApplicationComplete  (scraper.applyToJob)
    "serr",   \* onError                (scraper.applyToJob, catch)
    "sq",     \* onScreeningQuestion    (scraper.fillScreeningAnswer)
    "slog",   \* onLog via this.log     (scraper.submitApplication, try)
    "slog2",  \* onLog via this.log     (scraper.submitApplication, catch)
    "wlog",   \* onLog via this.log     (waitForManualLogin, on entry)
    "llog",   \* onLog via this.log     (checkLoginStatus, try)
    "lerr",   \* onLog via this.log     (checkLoginStatus, catch)
    "wok",    \* onLog via this.log     (waitForManualLogin, login detected)
    "wend" }  \* onLog via this.log     (waitForManualLogin, timeout reached)

VARIABLES
  cap,         \* config.maxApplicationsPerSession
  profile,     \* this.profile # null
  page,        \* scraper.page # null (browser initialized and not closed)
  isRunning,   \* manager.isRunning
  shouldStop,  \* manager.shouldStop
  state,       \* the scraper's SessionState
  runs,        \* per processJobQueue invocation: its locals and its history
  fm,          \* an application form and a getScreeningQuestions / fillScreeningAnswer session on it
  lg,          \* a waitForManualLogin call
  sink,        \* the event sink the manager was constructed with
  jb,          \* the jobs table and the requests that save listings to it
  gm           \* the module's manager variable and the getManager calls

vars == <<cap, profile, page, isRunning, shouldStop, state, runs, fm, lg, sink, jb, gm>>

\* The sites among S whose callbacks throw, in the ways the sink allows: an
\* injected sink ("any") may throw or return at every site; the sink
\* getManager builds ("api") logs and emits, which returns, except its
\* onScreeningQuestion, which calls substring on the question object and so
\* throws at every call.
Thrown(S) == IF sink = "api" THEN {S \cap {"sq"}} ELSE SUBSET S

\* The throw choices of one segment: T[c] = TRUE when the callback called at
\* site c throws; only the sites in S are reached by the segment.
Throws(S) == { [c \in Callbacks |-> c \in X] : X \in Thrown(S) }

NoJob == <<>>

\* No form session, no login wait, no save request and no getManager call
\* under way.
NoForm == [pc |-> "none"]
NoLogin == [pc |-> "none"]
NoJobs == [pc |-> "none"]
NoManager == [pc |-> "none"]

\* An ApplyResult: success, alreadyApplied?, error?, screeningQuestions?.
Result(s, a, e, q) == [success |-> s, alreadyApplied |-> a, error |-> e, questions |-> q]
NoResult == Result(FALSE, FALSE, "none", FALSE)

\* How an awaited call settled: not yet, with a result, or with a rejection.
Pending == [settled |-> FALSE, threw |-> FALSE, res |-> NoResult]
Returned(res) == [settled |-> TRUE, threw |-> FALSE, res |-> res]
Threw == [settled |-> TRUE, threw |-> TRUE, res |-> NoResult]

\* The question lists getScreeningQuestions can return: the containers with a
\* label text, in DOM order, each with id q-<index>; answer 0 is unset.
RECURSIVE SortedSeq(_)
SortedSeq(S) ==
  IF S = {} THEN <<>>
  ELSE LET m == CHOOSE x \in S : \A y \in S : x <= y
       IN <<[id |-> m, answer |-> 0]>> \o SortedSeq(S \ {m})

QuestionLists == { SortedSeq(S) : S \in SUBSET (0 .. MaxContainers - 1) }

\* A processJobQueue invocation that has not been made yet.
IdleRun(id) ==
  [ id |-> id, pc |-> "idle",
    src |-> "naukri",                              \* the source argument
    jobs |-> <<>>,                                 \* the jobs argument
    n |-> 0, max |-> 0, i |-> 0,                   \* jobs.length, maxApplications, i
    applied |-> 0, failed |-> 0, skipped |-> 0,    \* the three counters
    qs |-> <<>>, qi |-> 0, ans |-> 0,              \* result.screeningQuestions, loop position, answerResponse.answer
    \* history of the invocation
    attempted |-> <<>>,      \* indices of the jobs applyToJob was called on, in call order
    inflight |-> 0,          \* applyToJob calls made and not yet settled
    stopped |-> FALSE,       \* stop() was called while the invocation was running
    cbThrew |-> FALSE,       \* a callback of the event sink threw during the invocation
    sessions |-> <<>>,       \* the (applied, failed) pairs passed to onSessionComplete
    progress |-> <<>>,       \* the (current, total) pairs passed to onQueueProgress
    delays |-> 0,            \* inter-application delays awaited
    reported |-> <<>>,       \* <<job, status>> per onProgress call: the job and the status its record is given
    \* history of the current (or last) iteration
    incs |-> <<>>,           \* the counters incremented by the iteration, in order
    erred |-> FALSE,         \* the queue loop called onError for the iteration's job
    out |-> Pending,         \* how manager.applyToJob settled
    sres |-> Pending,        \* how scraper.applyToJob settled
    starts |-> 0,            \* onApplicationStart calls
    completes |-> <<>>,      \* the success flags passed to onApplicationComplete
    marker |-> FALSE,        \* the already-applied marker was found on the page
    clicks |-> 0,            \* clicks on the apply control
    extracted |-> 0,         \* getScreeningQuestions calls
    answered |-> <<>>,       \* <<id, answer>> the resolver returned, in order
    rthrew |-> <<>>,         \* ids of the questions for which the resolver threw
    fills |-> <<>>,          \* <<id, answer>> of the fillScreeningAnswer calls, in order
    fillThrew |-> 0,         \* fillScreeningAnswer calls that rejected
    submits |-> 0,           \* submitApplication calls
    submitRes |-> "none",    \* what submitApplication returned
    fillsAtSubmit |-> 0 ]    \* fillScreeningAnswer calls made before submitApplication was called

-----------------------------------------------------------------------------
(***************************************************************************)
(* The synchronous code of the manager and the scraper, as functions of a  *)
(* world w = [run, isRunning, st]: the invocation's record, manager        *)
(* .isRunning and the scraper's SessionState.  stop is manager.shouldStop  *)
(* as the segment sees it, T the segment's throw choices.                  *)
(***************************************************************************)

Min(a, b) == IF a <= b THEN a ELSE b

Mark(r, T, c) == [r EXCEPT !.cbThrew = @ \/ T[c]]

\* processJobQueue, lines 905-908: leave the loop.
Exit(w, T) ==
  LET r == w.run
  IN [w EXCEPT !.isRunning = FALSE,
               !.run = [Mark(r, T, "sc") EXCEPT
                          !.sessions = Append(@, <<r.applied, r.failed>>),
                          !.pc = IF T["sc"] THEN "rejected" ELSE "returned"]]

\* processJobQueue, lines 885-891: the counter an ApplyResult goes to.
Classify(res) ==
  IF res.success THEN "applied"
  ELSE IF res.alreadyApplied THEN "skipped"
  ELSE "failed"

Count(r, c) == [r EXCEPT ![c] = @ + 1, !.incs = Append(@, c)]

\* processJobQueue, lines 894-897: the catch block of the loop body.
LoopCatch(r, T) ==
  [Mark(Count(r, "failed"), T, "qerr") EXCEPT !.erred = TRUE]

\* A loop that takes the head of the queue at every iteration.
JobAtHead(i) == 0

\* processJobQueue, line 879: const job = jobs[i]; a job is known by its index.
JobAt(i) == i

\* POST /process-queue, line 423: the status the onProgress callback of the
\* route gives the job's application record.
NewStatus(res) ==
  IF res.success THEN "applied"
  ELSE IF res.alreadyApplied THEN "skipped"
  ELSE "failed"

\* processJobQueue, lines 883-893: the try block once applyToJob has settled.
LoopTry(r, out, T) ==
  IF out.threw THEN LoopCatch(r, T)
  ELSE LET c == [Mark(Count(r, Classify(out.res)), T, "prog") EXCEPT
                   !.reported = Append(@, <<JobAt(r.i), NewStatus(out.res)>>)]
       IN IF T["prog"] THEN LoopCatch(c, T) ELSE c

\* Whether the iteration's catch block ran and its onError threw.
LoopRejects(out, T) == (out.threw \/ T["prog"]) /\ T["qerr"]

\* processJobQueue, line 878: i++.
NextIndex(i) == i + 1

\* A delay awaited after every attempt, the last one included.
DelayDueAlways(r, stop) == ~stop

\* processJobQueue, line 900: whether the inter-application delay is awaited.
DelayDue(r, stop) == r.i < r.max - 1 /\ ~stop

\* processJobQueue, line 878: the loop condition.
LoopCond(r, stop) == r.i < r.max /\ ~stop

\* The history of an iteration, cleared when the next one begins.
NewIteration(r) ==
  [r EXCEPT !.incs = <<>>, !.erred = FALSE, !.out = Pending, !.sres = Pending,
            !.starts = 0, !.completes = <<>>,
            !.marker = FALSE, !.clicks = 0, !.extracted = 0, !.answered = <<>>,
            !.rthrew = <<>>, !.fills = <<>>, !.fillThrew = 0, !.submits = 0, !.submitRes = "none",
            !.fillsAtSubmit = 0, !.qs = <<>>, !.qi = 0, !.ans = 0]

\* A manager that looks up the scraper without asking for a profile.
PreconditionNoProfile(p, src) == src \in Registered

\* manager.applyToJob, lines 818-823: the profile is set (p) and a scraper is
\* registered for the source.
Precondition(p, src) == p /\ src \in Registered

RECURSIVE AfterAttempt(_, _, _, _), LoopHead(_, _, _), Iterate(_, _, _)

\* processJobQueue, lines 883-903 and the loop's i++: from the moment
\* applyToJob settled with out to the next await or the end of the run.
AfterAttempt(w, out, stop, T) ==
  LET r0 == [w.run EXCEPT !.out = out, !.inflight = @ - 1]
      r1 == LoopTry(r0, out, T)
  IN IF LoopRejects(out, T)
     THEN [w EXCEPT !.run = [r1 EXCEPT !.pc = "rejected"]]
     ELSE IF DelayDue(r1, stop)
     THEN [w EXCEPT !.run = [r1 EXCEPT !.pc = "delay", !.delays = @ + 1]]
     ELSE LoopHead([w EXCEPT !.run = [r1 EXCEPT !.i = NextIndex(@)]], stop, T)

\* processJobQueue, line 878.
LoopHead(w, stop, T) ==
  IF LoopCond(w.run, stop) THEN Iterate(w, stop, T) ELSE Exit(w, T)

\* processJobQueue, lines 879-883, manager.applyToJob, lines 817-826, and
\* scraper.applyToJob, lines 415-431: one iteration up to its first await.
Iterate(w, stop, T) ==
  LET r0 == [Mark(NewIteration(w.run), T, "qp") EXCEPT
               !.progress = Append(@, <<w.run.i + 1, w.run.max>>)]
  IN IF T["qp"]
     THEN [w EXCEPT !.run = [r0 EXCEPT !.pc = "rejected"]]
     ELSE
       LET r1 == [r0 EXCEPT !.attempted = Append(@, JobAt(r0.i)), !.inflight = @ + 1]
           w1 == [w EXCEPT !.run = r1]
       IN IF ~Precondition(profile, r1.src)
          THEN AfterAttempt(w1, Threw, stop, T)
          ELSE IF ~page
          THEN AfterAttempt([w1 EXCEPT !.run.sres = Threw], Threw, stop, T)
          ELSE
            LET w2 == [w1 EXCEPT !.st.currentJob = <<r1.id, JobAt(r1.i)>>,
                                 !.run = [Mark(r1, T, "start") EXCEPT !.starts = @ + 1]]
            IN IF T["start"]
               THEN AfterAttempt([w2 EXCEPT !.run.sres = Threw], Threw, stop, T)
               ELSE [w2 EXCEPT !.run.pc = "chk"]

\* manager.applyToJob, line 854, and submitApplication, lines 651-654: the
\* question loop is exhausted, submitApplication is called.
CallSubmit(w, stop, T) ==
  LET r1 == [w.run EXCEPT !.submits = @ + 1, !.fillsAtSubmit = Len(w.run.fills)]
      w1 == [w EXCEPT !.run = r1]
  IN IF ~page
     THEN AfterAttempt([w1 EXCEPT !.run.submitRes = "threw"], Threw, stop, T)
     ELSE [w1 EXCEPT !.run.pc = "submit"]

\* manager.applyToJob, lines 832-841: the head of the question loop at its
\* k-th question; the resolver is called and awaited.
NextQuestion(w, k, stop, T) ==
  IF k > Len(w.run.qs)
  THEN CallSubmit(w, stop, T)
  ELSE [w EXCEPT !.run.qi = k, !.run.pc = "resolve"]

\* manager.applyToJob, lines 848-850: the per-question catch block.
QuestionCatch(w, stop, T) ==
  LET w1 == [w EXCEPT !.run = Mark(w.run, T, "clog")]
  IN IF T["clog"]
     THEN AfterAttempt(w1, Threw, stop, T)
     ELSE NextQuestion(w1, w1.run.qi + 1, stop, T)

\* manager.applyToJob, lines 834-841 and 848: answerQuestion rejected for
\* the current question.
ResolverThrew(w, stop, T) ==
  QuestionCatch([w EXCEPT !.run.rthrew = Append(@, w.run.qs[w.run.qi].id)], stop, T)

\* manager.applyToJob, lines 843-847, and fillScreeningAnswer, lines 587-594:
\* the resolver returned answer a for the current question.
Answered(w, a, stop, T) ==
  LET q  == w.run.qs[w.run.qi]
      w1 == [w EXCEPT !.run = [Mark(w.run, T, "mlog") EXCEPT
                                 !.answered = Append(@, <<q.id, a>>)]]
  IN IF T["mlog"]
     THEN QuestionCatch(w1, stop, T)
     ELSE LET w2 == [w1 EXCEPT !.run.fills = Append(@, <<q.id, a>>), !.run.ans = a]
          IN IF ~page
             THEN QuestionCatch([w2 EXCEPT !.run.fillThrew = @ + 1], stop, T)
             ELSE [w2 EXCEPT !.run.pc = "fill"]

\* fillScreeningAnswer, lines 594-649, and manager.applyToJob, line 847: the
\* injection settled (ok: page.evaluate did not throw).
Filled(w, ok, stop, T) ==
  LET w1 == [w EXCEPT !.run = IF ok THEN Mark(w.run, T, "sq") ELSE w.run]
  IN IF ok /\ ~T["sq"]
     THEN NextQuestion([w1 EXCEPT !.run.qs[w.run.qi].answer = w.run.ans],
                       w.run.qi + 1, stop, T)
     ELSE QuestionCatch([w1 EXCEPT !.run.fillThrew = @ + 1], stop, T)

\* submitApplication, lines 656-679: what it returns once the browser has
\* answered env: "ok" (a submit button was clicked and the success marker
\* found), "unclear" (clicked, no success marker), "throw" (clicked, the
\* success check threw), "nobutton" (no selector could be clicked).
SubmitOutcome(env, T) ==
  IF env = "nobutton" THEN "false"
  ELSE IF T["slog"] \/ env = "throw"
  THEN (IF T["slog2"] THEN "threw" ELSE "false")
  ELSE IF env = "ok" THEN "true" ELSE "false"

\* An outcome built by spreading the scraper's result: its error stays.
SubmitResultKeepsError(ok) == Result(ok, FALSE, "Screening questions require answers", TRUE)

\* manager.applyToJob, lines 855-858: the outcome built after submission.
SubmitResult(ok) == Result(ok, FALSE, "none", TRUE)

\* manager.applyToJob, lines 854-861: submitApplication settled.
Submitted(w, env, stop, T) ==
  LET o  == SubmitOutcome(env, T)
      r1 == [w.run EXCEPT !.submitRes = o,
                          !.cbThrew = @ \/ (env # "nobutton" /\ T["slog"]) \/ o = "threw"]
      w1 == [w EXCEPT !.run = r1]
  IN IF o = "threw"
     THEN AfterAttempt(w1, Threw, stop, T)
     ELSE AfterAttempt(w1, Returned(SubmitResult(o = "true")), stop, T)

\* A test that forgets to look at the list's length.
NeedsAnswersAnyList(res, qs) == ~res.success /\ res.questions

\* manager.applyToJob, line 829: whether the scraper's result carries
\* screening questions to answer (qs is result.screeningQuestions).
NeedsAnswers(res, qs) == ~res.success /\ res.questions /\ Len(qs) > 0

\* manager.applyToJob, lines 826-830 and 861: scraper.applyToJob settled.
ScraperSettled(w, out, stop, T) ==
  LET w1 == [w EXCEPT !.run.sres = out]
  IN IF out.threw
     THEN AfterAttempt(w1, Threw, stop, T)
     ELSE IF NeedsAnswers(out.res, w1.run.qs)
     THEN LET w2 == [w1 EXCEPT !.run = Mark(w1.run, T, "mlog")]
          IN IF T["mlog"]
             THEN AfterAttempt(w2, Threw, stop, T)
             ELSE NextQuestion(w2, 1, stop, T)
     ELSE AfterAttempt(w1, Returned(out.res), stop, T)

\* scraper.applyToJob, lines 498-500: the finally block.
Finally(w) == [w EXCEPT !.st.currentJob = NoJob]

\* scraper.applyToJob, lines 493-500: the catch block; the outcome of the call.
ScraperCatch(w, stop, T) ==
  LET w1 == [w EXCEPT !.st.failedCount = @ + 1,
                      !.run.completes = Append(@, FALSE),
                      !.run.cbThrew = @ \/ T["done"] \/ (~T["done"] /\ T["serr"])]
  IN IF T["done"] \/ T["serr"]
     THEN ScraperSettled(Finally(w1), Threw, stop, T)
     ELSE ScraperSettled(Finally(w1), Returned(Result(FALSE, FALSE, "exception", FALSE)),
                         stop, T)

\* A return statement inside the try block of scraper.applyToJob.
ScraperReturn(w, res, stop, T) == ScraperSettled(Finally(w), Returned(res), stop, T)

\* scraper.applyToJob, lines 431-439: the already-applied check settled;
\* env is "applied" (marker present), "fresh", or "throw".
Checked(w, env, stop, T) ==
  IF env = "throw" THEN ScraperCatch(w, stop, T)
  ELSE IF env = "applied"
  THEN LET w1 == [w EXCEPT !.run = [Mark(w.run, T, "alog") EXCEPT !.marker = TRUE]]
       IN IF T["alog"]
          THEN ScraperCatch(w1, stop, T)
          ELSE ScraperReturn(w1, Result(FALSE, TRUE, "none", FALSE), stop, T)
  ELSE [w EXCEPT !.run.pc = "click"]

\* scraper.applyToJob, lines 444-448: waitForSelector and click settled.
Clicked(w, ok, T) ==
  IF ~ok THEN [w EXCEPT !.run.pc = "fallback"]
  ELSE LET w1 == [w EXCEPT !.run = [Mark(w.run, T, "alog") EXCEPT !.clicks = @ + 1]]
       IN IF T["alog"]
          THEN [w1 EXCEPT !.run.pc = "fallback"]
          ELSE [w1 EXCEPT !.run.pc = "ques"]

\* scraper.applyToJob, lines 448-465: the fallback scan settled; env is
\* "clicked", "notfound" or "throw".
FellBack(w, env, stop, T) ==
  IF env = "throw" THEN ScraperCatch(w, stop, T)
  ELSE IF env = "clicked" THEN [w EXCEPT !.run.clicks = @ + 1, !.run.pc = "ques"]
  ELSE ScraperReturn(w, Result(FALSE, FALSE, "Apply button not found", FALSE), stop, T)

\* scraper.applyToJob, lines 467-480: hasScreeningQuestions and, when it is
\* true, getScreeningQuestions settled; env is "none" (no question
\* container), "some" (containers found, qs extracted) or "throw".
Questioned(w, env, qs, stop, T) ==
  IF env = "throw" THEN ScraperCatch(w, stop, T)
  ELSE IF env = "some"
  THEN LET w1 == [w EXCEPT !.run = [Mark(w.run, T, "alog") EXCEPT
                                      !.extracted = @ + 1, !.qs = qs]]
       IN IF T["alog"]
          THEN ScraperCatch([w1 EXCEPT !.run.qs = <<>>], stop, T)
          ELSE ScraperReturn(w1, Result(FALSE, FALSE, "Screening questions require answers", TRUE),
                             stop, T)
  ELSE [w EXCEPT !.run.pc = "succ"]

\* scraper.applyToJob, lines 483-492: checkApplicationSuccess settled; env
\* is "success", "unclear" or "throw".
SuccessChecked(w, env, stop, T) ==
  IF env = "throw" THEN ScraperCatch(w, stop, T)
  ELSE IF env = "success"
  THEN LET w1 == [w EXCEPT !.st.appliedCount = @ + 1,
                           !.run.completes = Append(@, TRUE),
                           !.run.cbThrew = @ \/ T["done"] \/ T["alog"]]
       IN IF T["done"] \/ T["alog"]
          THEN ScraperCatch(w1, stop, T)
          ELSE ScraperReturn(w1, Result(TRUE, FALSE, "none", FALSE), stop, T)
  ELSE ScraperReturn(w, Result(FALSE, FALSE, "Application submission unclear", FALSE), stop, T)

-----------------------------------------------------------------------------
(***************************************************************************)
(* The state machine.                                                      *)
(***************************************************************************)

Running(r) == runs[r].pc \notin {"idle", "returned", "rejected"}

Ended(r) == runs[r].pc \in {"returned", "rejected"}

\* The model follows the manager until every invocation has ended.
Active == \E r \in DOMAIN runs : ~Ended(r)

World(r) == [run |-> runs[r], isRunning |-> isRunning, st |-> state]

\* The segment of invocation r ended in world w.
Commit(r, w) ==
  /\ runs' = [runs EXCEPT ![r] = w.run]
  /\ isRunning' = w.isRunning
  /\ state' = w.st
  /\ UNCHANGED <<cap, profile, page, shouldStop, fm, lg, sink, jb, gm>>

\* new JobScraperManager(...): lines 732-733, 742-749; BaseScraper, lines 9, 13-19.
Init ==
  /\ cap \in 1 .. MaxCap
  /\ profile = FALSE
  /\ page = FALSE
  /\ isRunning = FALSE
  /\ shouldStop = FALSE
  /\ state = [currentJob |-> NoJob, appliedCount |-> 0, failedCount |-> 0]
  /\ runs = [r \in Runs |-> IdleRun(r)]
  /\ fm = NoForm
  /\ lg = NoLogin
  /\ sink = "any"
  /\ jb = NoJobs
  /\ gm = NoManager

\* manager.setProfile, lines 764-768.
SetProfile ==
  /\ Active
  /\ ~profile
  /\ profile' = TRUE
  /\ UNCHANGED <<cap, page, isRunning, shouldStop, state, runs, fm, lg, sink, jb, gm>>

\* manager.initialize -> BaseScraper.initialize, lines 49-73 of the base scraper.
Initialize ==
  /\ Active
  /\ ~page
  /\ page' = TRUE
  /\ UNCHANGED <<cap, profile, isRunning, shouldStop, state, runs, fm, lg, sink, jb, gm>>

\* manager.close -> BaseScraper.close, lines 75-89 of the base scraper.
Close ==
  /\ Active
  /\ page
  /\ page' = FALSE
  /\ UNCHANGED <<cap, profile, isRunning, shouldStop, state, runs, fm, lg, sink, jb, gm>>

\* manager.stop, lines 911-914.
Stop ==
  /\ Active
  /\ shouldStop' = TRUE
  /\ runs' = [r \in DOMAIN runs |->
                IF Running(r) THEN [runs[r] EXCEPT !.stopped = TRUE] ELSE runs[r]]
  /\ UNCHANGED <<cap, profile, page, isRunning, state, fm, lg, sink, jb, gm>>

\* processJobQueue called with a list of n jobs, lines 864-883: up to the
\* first await.
Start(r) ==
  /\ runs[r].pc = "idle"
  /\ \E n \in 0 .. MaxJobs, src \in Sources, T \in Throws({"qp", "start", "qerr", "sc"}) :
       LET r0 == [IdleRun(r) EXCEPT !.src = src, !.jobs = [k \in 1 .. n |-> k - 1],
                                    !.n = n, !.max = Min(n, cap)]
           w  == LoopHead([run |-> r0, isRunning |-> TRUE, st |-> state], FALSE, T)
       IN /\ runs' = [runs EXCEPT ![r] = w.run]
          /\ isRunning' = w.isRunning
          /\ state' = w.st
          /\ shouldStop' = FALSE
  /\ UNCHANGED <<cap, profile, page, fm, lg, sink, jb, gm>>

\* The sites of the queue loop a segment reaches once applyToJob has settled.
InLoop == {"prog", "qerr", "sc"}

\* The sites of the catch block of scraper.applyToJob.
InCatch == {"done", "serr"}

\* What the browser can answer while the page is open; with the page closed
\* (this.page = null) every page access throws.
Browser(outcomes, onClosed) == IF page THEN outcomes ELSE {onClosed}

\* The already-applied check of scraper.applyToJob completes.
Check(r) ==
  /\ runs[r].pc = "chk"
  /\ \E env \in Browser({"applied", "fresh", "throw"}, "throw") :
     \E T \in Throws(CASE env = "fresh" -> {}
                       [] env = "throw" -> InCatch \cup InLoop
                       [] OTHER -> {"alog"} \cup InCatch \cup InLoop) :
       Commit(r, Checked(World(r), env, shouldStop, T))

\* The wait for and click on the apply control completes.
Click(r) ==
  /\ runs[r].pc = "click"
  /\ \E ok \in Browser(BOOLEAN, FALSE) :
     \E T \in Throws(IF ok THEN {"alog"} ELSE {}) :
       Commit(r, Clicked(World(r), ok, T))

\* The fallback scan for an apply control completes.
Fallback(r) ==
  /\ runs[r].pc = "fallback"
  /\ \E env \in Browser({"clicked", "notfound", "throw"}, "throw") :
     \E T \in Throws(CASE env = "clicked" -> {}
                       [] env = "notfound" -> InLoop
                       [] OTHER -> InCatch \cup InLoop) :
       Commit(r, FellBack(World(r), env, shouldStop, T))

\* The detection and extraction of screening questions completes: env is
\* "throw", "none" (no question container) or "some" with the list qs.
Questions(r) ==
  /\ runs[r].pc = "ques"
  /\ \E env \in Browser({"none", "some", "throw"}, "throw") :
     \E qs \in IF env = "some" THEN QuestionLists ELSE {<<>>} :
     \E T \in Throws(CASE env = "none" -> {}
                       [] env = "throw" -> InCatch \cup InLoop
                       [] OTHER -> {"alog", "mlog"} \cup InCatch \cup InLoop) :
       Commit(r, Questioned(World(r), env, qs, shouldStop, T))

\* The success check of scraper.applyToJob completes.
Success(r) ==
  /\ runs[r].pc = "succ"
  /\ \E env \in Browser({"success", "unclear", "throw"}, "throw") :
     \E T \in Throws(CASE env = "unclear" -> InLoop
                       [] env = "throw" -> InCatch \cup InLoop
                       [] OTHER -> {"alog"} \cup InCatch \cup InLoop) :
       Commit(r, SuccessChecked(World(r), env, shouldStop, T))

\* The resolver's answerQuestion settles: with an answer, or rejected.
Resolve(r) ==
  /\ runs[r].pc = "resolve"
  /\ \E ok \in BOOLEAN :
     \E T \in Throws(IF ok THEN {"mlog", "clog", "qerr", "sc"}
                     ELSE {"clog", "qerr", "sc"}) :
       Commit(r, IF ok
                 THEN Answered(World(r), Reply(runs[r].qs[runs[r].qi].id), shouldStop, T)
                 ELSE ResolverThrew(World(r), shouldStop, T))

\* fillScreeningAnswer settles.
Fill(r) ==
  /\ runs[r].pc = "fill"
  /\ \E ok \in Browser(BOOLEAN, FALSE) :
     \E T \in Throws(IF ok THEN {"sq", "clog", "qerr", "sc"} ELSE {"clog", "qerr", "sc"}) :
       Commit(r, Filled(World(r), ok, shouldStop, T))

\* submitApplication settles.
Submit(r) ==
  /\ runs[r].pc = "submit"
  /\ \E env \in Browser({"ok", "unclear", "throw", "nobutton"}, "nobutton") :
     \E T \in Throws(IF env = "nobutton" THEN InLoop
                     ELSE {"slog", "slog2"} \cup InLoop) :
       Commit(r, Submitted(World(r), env, shouldStop, T))

\* The inter-application delay elapses: processJobQueue, lines 901-903, the
\* loop's i++ and the next iteration up to its first await.
Delay(r) ==
  /\ runs[r].pc = "delay"
  /\ \E T \in Throws({"qp", "start", "qerr", "sc"}) :
       Commit(r, LoopHead([World(r) EXCEPT !.run.i = NextIndex(@)], shouldStop, T))

Next ==
  \/ SetProfile
  \/ Initialize
  \/ Close
  \/ Stop
  \/ \E r \in DOMAIN runs : Start(r)
  \/ \E r \in DOMAIN runs : Check(r)
  \/ \E r \in DOMAIN runs : Click(r)
  \/ \E r \in DOMAIN runs : Fallback(r)
  \/ \E r \in DOMAIN runs : Questions(r)
  \/ \E r \in DOMAIN runs : Success(r)
  \/ \E r \in DOMAIN runs : Resolve(r)
  \/ \E r \in DOMAIN runs : Fill(r)
  \/ \E r \in DOMAIN runs : Submit(r)
  \/ \E r \in DOMAIN runs : Delay(r)

Spec == Init /\ [][Next]_vars

-----------------------------------------------------------------------------
(***************************************************************************)
(* The application form: getScreeningQuestions and fillScreeningAnswer as  *)
(* functions of the question containers the page shows.                    *)
(***************************************************************************)

\* The least number of checkboxes that is "more than one" (line 555).
Many == 2

\* A question container: whether it has a label text, a text input or
\* textarea, a number input, a select, and how many radios and checkboxes.
Containers ==
  [label : BOOLEAN, text : BOOLEAN, number : BOOLEAN, select : BOOLEAN,
   radios : 0 .. Many, checkboxes : 0 .. Many]

\* The matches of the container selector, in document order.
Forms == UNION { [1 .. n -> Containers] : n \in 0 .. MaxContainers }

\* getScreeningQuestions, line 575, and fillScreeningAnswer, line 592: the id
\* of the container at index, and the index parsed back from an id.
QuestionId(index) == <<"q-", index>>
ParseIndex(qid) == qid[2]

\* getScreeningQuestions, lines 531-569: the type given to a container.
DetectType(c) ==
  LET afterSelect   == IF c.select THEN "select" ELSE "text"
      afterRadio    == IF c.radios > 0 THEN "radio" ELSE afterSelect
      afterCheckbox == IF c.checkboxes > 1 THEN "multiselect"
                       ELSE IF c.checkboxes = 1 THEN "checkbox"
                       ELSE afterRadio
  IN IF c.number THEN "number" ELSE afterCheckbox

\* getScreeningQuestions, lines 517-584: one question per container that has
\* a label text, with the container's index in its id.
GetScreeningQuestions(form) ==
  LET indices == SelectSeq([k \in 1 .. Len(form) |-> k - 1],
                           LAMBDA i : form[i + 1].label)
  IN [j \in 1 .. Len(indices) |->
        [id |-> QuestionId(indices[j]), type |-> DetectType(form[indices[j] + 1])]]

\* fillScreeningAnswer, lines 602-642: the control of container c the answer
\* goes to; match tells whether an option (of the select, or a radio's
\* label) contains the answer.
FillKind(c, match) ==
  IF c.text THEN "text"
  ELSE IF c.number THEN "number"
  ELSE IF c.select THEN (IF match THEN "select" ELSE "none")
  ELSE IF c.radios > 0 THEN (IF match THEN "radio" ELSE "none")
  ELSE "none"

\* fillScreeningAnswer, lines 592-645: the container and the control changed.
FillTarget(form, qid, match) ==
  LET i == ParseIndex(qid)
  IN IF i + 1 > Len(form)
     THEN [index |-> i, kind |-> "none"]
     ELSE [index |-> i, kind |-> FillKind(form[i + 1], match)]

\* The application form is on the page.
InitForm ==
  /\ cap = MaxCap
  /\ profile = FALSE
  /\ page = TRUE
  /\ isRunning = FALSE
  /\ shouldStop = FALSE
  /\ state = [currentJob |-> NoJob, appliedCount |-> 0, failedCount |-> 0]
  /\ runs = [r \in Runs |-> IdleRun(r)]
  /\ lg = NoLogin
  /\ sink = "any"
  /\ jb = NoJobs
  /\ gm = NoManager
  /\ \E f \in Forms :
       fm = [pc |-> "page", form |-> f, questions |-> <<>>,
             fill |-> [id |-> QuestionId(0), match |-> FALSE, index |-> 0, kind |-> "none"]]

\* getScreeningQuestions, lines 512-585.
GetQuestions ==
  /\ fm.pc = "page"
  /\ fm' = [fm EXCEPT !.pc = "extracted", !.questions = GetScreeningQuestions(fm.form)]
  /\ UNCHANGED <<cap, profile, page, isRunning, shouldStop, state, runs, lg, sink, jb, gm>>

\* fillScreeningAnswer, lines 587-649, called with the id of container i.
FillAnswer ==
  /\ fm.pc = "extracted"
  /\ \E i \in 0 .. MaxContainers, match \in BOOLEAN, T \in Throws({"sq"}) :
       LET t == FillTarget(fm.form, QuestionId(i), match)
       IN fm' = [fm EXCEPT !.pc = IF T["sq"] THEN "rejected" ELSE "filled",
                           !.fill = [id |-> QuestionId(i), match |-> match,
                                     index |-> t.index, kind |-> t.kind]]
  /\ UNCHANGED <<cap, profile, page, isRunning, shouldStop, state, runs, lg, sink, jb, gm>>

NextForm ==
  \/ GetQuestions
  \/ FillAnswer

SpecForm == InitForm /\ [][NextForm]_vars

-----------------------------------------------------------------------------
(***************************************************************************)
(* waitForManualLogin.  Time is counted in seconds.                        *)
(***************************************************************************)

MaxTimeout == 7       \* largest timeoutMs / 1000 passed to waitForManualLogin
MaxLate == 1          \* how late a timer fires, how long a navigation takes

PollInterval == 3     \* line 210: delay(3000)
SettleDelay == 2      \* line 166: delay(2000)

\* checkLoginStatus, lines 164-182: what it returns once the page has
\* answered env: "in" (the login indicator is shown), "out" (it is not) or
\* "naverror" (goto or evaluate threw).
CheckLoginStatus(env, T) ==
  IF env = "naverror" \/ T["llog"]
  THEN (IF T["lerr"] THEN "threw" ELSE "false")
  ELSE IF env = "in" THEN "true" ELSE "false"

\* The time checkLoginStatus takes at least: a navigation that fails at once
\* takes none.
PollTime(env) == IF env = "naverror" THEN 0 ELSE SettleDelay

\* waitForManualLogin, lines 203-204 and 213-214, and checkLoginStatus,
\* lines 160-162: the loop condition at time now, the call of
\* checkLoginStatus or the return of false.
LoginLoop(l, now, T) ==
  LET l0 == [l EXCEPT !.now = now]
  IN IF now - l.start < l.timeout
     THEN IF page
          THEN [l0 EXCEPT !.pc = "poll", !.polls = @ + 1, !.pollStart = now]
          ELSE [l0 EXCEPT !.pc = "rejected"]
     ELSE IF T["wend"]
          THEN [l0 EXCEPT !.pc = "rejected", !.cbThrew = TRUE]
          ELSE [l0 EXCEPT !.pc = "returned", !.result = FALSE]

\* waitForManualLogin, lines 204-210: checkLoginStatus settled with res.
Polled(l, res, T) ==
  IF res = "threw" THEN [l EXCEPT !.pc = "rejected", !.cbThrew = TRUE]
  ELSE IF res = "true"
  THEN IF T["wok"]
       THEN [l EXCEPT !.pc = "rejected", !.cbThrew = TRUE]
       ELSE [l EXCEPT !.pc = "returned", !.result = TRUE, !.saved = TRUE]
  ELSE [l EXCEPT !.pc = "sleep"]

\* An initialized scraper, before waitForManualLogin is called.
InitLogin ==
  /\ cap = MaxCap
  /\ profile = FALSE
  /\ page = TRUE
  /\ isRunning = FALSE
  /\ shouldStop = FALSE
  /\ state = [currentJob |-> NoJob, appliedCount |-> 0, failedCount |-> 0]
  /\ runs = [r \in Runs |-> IdleRun(r)]
  /\ fm = NoForm
  /\ sink = "any"
  /\ jb = NoJobs
  /\ gm = NoManager
  /\ lg = [pc |-> "idle", timeout |-> 0, start |-> 0, now |-> 0, polls |-> 0,
           pollStart |-> 0, lastEnv |-> "none", seenIn |-> FALSE,
           result |-> FALSE, saved |-> FALSE, cbThrew |-> FALSE]

\* waitForManualLogin(timeoutMs), lines 195-204: up to the first await.
WaitForManualLogin ==
  /\ lg.pc = "idle"
  /\ \E t \in 0 .. MaxTimeout, T \in Throws({"wlog", "wend"}) :
       lg' = IF ~page THEN [lg EXCEPT !.pc = "rejected"]
             ELSE IF T["wlog"]
             THEN [lg EXCEPT !.pc = "rejected", !.timeout = t, !.cbThrew = TRUE]
             ELSE LoginLoop([lg EXCEPT !.timeout = t, !.start = lg.now], lg.now, T)
  /\ UNCHANGED <<cap, profile, page, isRunning, shouldStop, state, runs, fm, sink, jb, gm>>

\* checkLoginStatus settles, and waitForManualLogin goes on to its next await.
Poll ==
  /\ lg.pc = "poll"
  /\ \E env \in Browser({"in", "out", "naverror"}, "naverror"), late \in 0 .. MaxLate :
     \E T \in Throws(IF env = "naverror" THEN {"lerr"} ELSE {"llog", "lerr", "wok"}) :
       LET l0 == [lg EXCEPT !.now = @ + PollTime(env) + late, !.lastEnv = env,
                            !.seenIn = @ \/ env = "in",
                            !.cbThrew = @ \/ (env # "naverror" /\ T["llog"])]
       IN lg' = Polled(l0, CheckLoginStatus(env, T), T)
  /\ UNCHANGED <<cap, profile, page, isRunning, shouldStop, state, runs, fm, sink, jb, gm>>

\* The delay between two polls elapses: lines 210 and 203.
Sleep ==
  /\ lg.pc = "sleep"
  /\ \E late \in 0 .. MaxLate, T \in Throws({"wend"}) :
       lg' = LoginLoop(lg, lg.now + PollInterval + late, T)
  /\ UNCHANGED <<cap, profile, page, isRunning, shouldStop, state, runs, fm, sink, jb, gm>>

\* close() is called while the wait is under way or before it.
CloseBrowser ==
  /\ lg.pc \in {"idle", "poll", "sleep"}
  /\ page
  /\ page' = FALSE
  /\ UNCHANGED <<cap, profile, isRunning, shouldStop, state, runs, fm, lg, sink, jb, gm>>

NextLogin ==
  \/ WaitForManualLogin
  \/ Poll
  \/ Sleep
  \/ CloseBrowser

SpecLogin == InitLogin /\ [][NextLogin]_vars

-----------------------------------------------------------------------------
(***************************************************************************)
(* The jobs table and the two routes that save listings to it: POST        *)
(* /automation/search and POST /jobs/save.  Every query is awaited: a      *)
(* query takes effect when it is issued, and the handler that issued it    *)
(* goes on after the other handlers that are ready to run.  A row's        *)
(* primary key is generated (or comes from a listing that generated it),   *)
(* so a row is known by its source and external id.                        *)
(***************************************************************************)

MaxRequests == 2      \* requests that save listings
MaxListings == 2      \* listings in one request
MaxExternalId == 2    \* external ids 1 .. MaxExternalId

Requests == 1 .. MaxRequests

Listings == [source : Sources, externalId : 1 .. MaxExternalId]

ListingLists(S) == UNION { [1 .. n -> S] : n \in 0 .. MaxListings }

\* POST /search, lines 260-264, and POST /save, lines 83-87: the rows the
\* select returns for a listing, where(eq(jobs.externalId, job.externalId)).
Existing(table, job) ==
  { i \in 1 .. Len(table) : table[i].externalId = job.externalId }

\* An empty jobs table, no request made yet.
InitJobs ==
  /\ cap = MaxCap
  /\ profile = FALSE
  /\ page = TRUE
  /\ isRunning = FALSE
  /\ shouldStop = FALSE
  /\ state = [currentJob |-> NoJob, appliedCount |-> 0, failedCount |-> 0]
  /\ runs = [r \in Runs |-> IdleRun(r)]
  /\ fm = NoForm
  /\ lg = NoLogin
  /\ sink = "api"
  /\ gm = NoManager
  /\ jb = [pc |-> "open", table |-> <<>>,
           reqs |-> [h \in Requests |->
                      [pc |-> "idle", jobs |-> <<>>, k |-> 1, existing |-> {}]]]

\* POST /search, line 259, and POST /save, line 81: the head of the loop at
\* the request's k-th listing: the select is issued and awaited, or the loop
\* is over.
SelectNext(table, req) ==
  IF req.k > Len(req.jobs)
  THEN [req EXCEPT !.pc = "done"]
  ELSE [req EXCEPT !.pc = "selected", !.existing = Existing(table, req.jobs[req.k])]

\* POST /automation/search, lines 231-264: searchJobs has returned the
\* listings of the naukri scraper (lines 344-345: source 'naukri').
SearchRequest(h) ==
  /\ jb.pc = "open"
  /\ jb.reqs[h].pc = "idle"
  /\ \E jobs \in ListingLists({ l \in Listings : l.source \in Registered }) :
       jb' = [jb EXCEPT !.reqs[h] = SelectNext(jb.table, [@ EXCEPT !.jobs = jobs])]
  /\ UNCHANGED <<cap, profile, page, isRunning, shouldStop, state, runs, fm, lg, sink, gm>>

\* POST /jobs/save, lines 66-87: a request with a non-empty list of listings.
SaveRequest(h) ==
  /\ jb.pc = "open"
  /\ jb.reqs[h].pc = "idle"
  /\ \E jobs \in ListingLists(Listings) \ {<<>>} :
       jb' = [jb EXCEPT !.reqs[h] = SelectNext(jb.table, [@ EXCEPT !.jobs = jobs])]
  /\ UNCHANGED <<cap, profile, page, isRunning, shouldStop, state, runs, fm, lg, sink, gm>>

\* POST /search, lines 266-282, and POST /save, lines 89-117: the select has
\* returned; the listing is inserted when no row was found, else the loop
\* goes on to its next listing.
Selected(h) ==
  /\ jb.pc = "open"
  /\ jb.reqs[h].pc = "selected"
  /\ jb' = IF jb.reqs[h].existing = {}
           THEN [jb EXCEPT !.table = Append(@, jb.reqs[h].jobs[jb.reqs[h].k]),
                           !.reqs[h].pc = "inserted"]
           ELSE [jb EXCEPT !.reqs[h] = SelectNext(jb.table, [@ EXCEPT !.k = @ + 1])]
  /\ UNCHANGED <<cap, profile, page, isRunning, shouldStop, state, runs, fm, lg, sink, gm>>

\* POST /search, line 281, and POST /save, lines 113-114: the insert has
\* returned; the loop goes on to its next listing.
Inserted(h) ==
  /\ jb.pc = "open"
  /\ jb.reqs[h].pc = "inserted"
  /\ jb' = [jb EXCEPT !.reqs[h] = SelectNext(jb.table, [@ EXCEPT !.k = @ + 1])]
  /\ UNCHANGED <<cap, profile, page, isRunning, shouldStop, state, runs, fm, lg, sink, gm>>

NextJobs ==
  \/ \E h \in Requests : SearchRequest(h)
  \/ \E h \in Requests : SaveRequest(h)
  \/ \E h \in Requests : Selected(h)
  \/ \E h \in Requests : Inserted(h)

SpecJobs == InitJobs /\ [][NextJobs]_vars

-----------------------------------------------------------------------------
(***************************************************************************)
(* getManager: the module's manager variable and the route handlers that   *)
(* call getManager.  The instances created are numbered 1, 2, ...; 0 is    *)
(* null.                                                                   *)
(***************************************************************************)

MaxHandlers == 3      \* route handlers that call getManager

Handlers == 1 .. MaxHandlers

\* The server has started: no manager yet; the settings and profiles tables
\* hold a row or none.
InitManager ==
  /\ cap = MaxCap
  /\ profile = FALSE
  /\ page = FALSE
  /\ isRunning = FALSE
  /\ shouldStop = FALSE
  /\ state = [currentJob |-> NoJob, appliedCount |-> 0, failedCount |-> 0]
  /\ runs = [r \in Runs |-> IdleRun(r)]
  /\ fm = NoForm
  /\ lg = NoLogin
  /\ sink = "api"
  /\ jb = NoJobs
  /\ \E hasSettings \in BOOLEAN, hasProfile \in BOOLEAN :
       gm = [pc |-> "open", manager |-> 0, created |-> 0, profiled |-> {},
             hasSettings |-> hasSettings, hasProfile |-> hasProfile,
             calls |-> [h \in Handlers |->
                         [pc |-> "idle", rows |-> FALSE, got |-> 0]]]

\* getManager, lines 16-26: the manager is returned when there is one, else
\* the settings are selected and awaited.
GetManager(h) ==
  /\ gm.pc = "open"
  /\ gm.calls[h].pc = "idle"
  /\ gm' = IF gm.manager # 0
           THEN [gm EXCEPT !.calls[h].pc = "returned", !.calls[h].got = gm.manager]
           ELSE [gm EXCEPT !.calls[h].pc = "settings", !.calls[h].rows = gm.hasSettings]
  /\ UNCHANGED <<cap, profile, page, isRunning, shouldStop, state, runs, fm, lg, sink, jb>>

\* getManager, lines 26-100: the settings have arrived; without a row the
\* call throws, else a manager is constructed and assigned to the module's
\* variable, and the profiles are selected and awaited.
SettingsRead(h) ==
  /\ gm.pc = "open"
  /\ gm.calls[h].pc = "settings"
  /\ gm' = IF ~gm.calls[h].rows
           THEN [gm EXCEPT !.calls[h].pc = "failed"]
           ELSE [gm EXCEPT !.manager = gm.created + 1, !.created = @ + 1,
                           !.calls[h].pc = "profiles", !.calls[h].rows = gm.hasProfile]
  /\ UNCHANGED <<cap, profile, page, isRunning, shouldStop, state, runs, fm, lg, sink, jb>>

\* getManager, lines 100-117: the profiles have arrived; the profile, when
\* there is one, is set on the manager the module's variable holds, and that
\* manager is returned.
ProfilesRead(h) ==
  /\ gm.pc = "open"
  /\ gm.calls[h].pc = "profiles"
  /\ gm' = [gm EXCEPT !.profiled = IF gm.calls[h].rows THEN @ \cup {gm.manager} ELSE @,
                      !.calls[h].pc = "returned", !.calls[h].got = gm.manager]
  /\ UNCHANGED <<cap, profile, page, isRunning, shouldStop, state, runs, fm, lg, sink, jb>>

NextManager ==
  \/ \E h \in Handlers : GetManager(h)
  \/ \E h \in Handlers : SettingsRead(h)
  \/ \E h \in Handlers : ProfilesRead(h)

SpecManager == InitManager /\ [][NextManager]_vars

-----------------------------------------------------------------------------
(***************************************************************************)
(* POST /automation/process-queue and POST /automation/stop on the manager *)
(* getManager built, with the profile loaded and the browser initialized.  *)
(* The applications 0 .. MaxJobs-1 are queued when the server starts; an   *)
(* application leaves "queued" when a run's onProgress updates its record. *)
(***************************************************************************)

\* The requests to POST /process-queue, each with the run it starts.
QueueRuns == {"A", "B"}

\* The applications whose record run r's onProgress calls have updated.
Updated(r) ==
  { runs[r].jobs[runs[r].reported[k][1] + 1] : k \in 1 .. Len(runs[r].reported) }

RECURSIVE Ascending(_)
Ascending(S) ==
  IF S = {} THEN <<>>
  ELSE LET m == CHOOSE x \in S : \A y \in S : x <= y
       IN <<m>> \o Ascending(S \ {m})

\* POST /process-queue, lines 373-390: the jobs of the applications that are
\* queued.
QueuedJobs ==
  Ascending((0 .. MaxJobs - 1) \ UNION { Updated(r) : r \in DOMAIN runs })

InitQueue ==
  /\ cap \in 1 .. MaxCap
  /\ profile = TRUE
  /\ page = TRUE
  /\ isRunning = FALSE
  /\ shouldStop = FALSE
  /\ state = [currentJob |-> NoJob, appliedCount |-> 0, failedCount |-> 0]
  /\ runs = [r \in QueueRuns |-> IdleRun(r)]
  /\ fm = NoForm
  /\ lg = NoLogin
  /\ sink = "api"
  /\ jb = NoJobs
  /\ gm = NoManager

\* POST /process-queue, lines 362-436, and processJobQueue, lines 864-883:
\* the queued jobs are selected and, when there is one, processJobQueue is
\* called with them, and runs up to its first await.
ProcessQueue(r) ==
  /\ runs[r].pc = "idle"
  /\ QueuedJobs # <<>>
  /\ \E src \in Sources, T \in Throws({"qp", "start", "qerr", "sc"}) :
       LET r0 == [IdleRun(r) EXCEPT !.src = src, !.jobs = QueuedJobs,
                                    !.n = Len(QueuedJobs),
                                    !.max = Min(Len(QueuedJobs), cap)]
           w  == LoopHead([run |-> r0, isRunning |-> TRUE, st |-> state], FALSE, T)
       IN /\ runs' = [runs EXCEPT ![r] = w.run]
          /\ isRunning' = w.isRunning
          /\ state' = w.st
          /\ shouldStop' = FALSE
  /\ UNCHANGED <<cap, profile, page, fm, lg, sink, jb, gm>>

NextQueue ==
  \/ Stop
  \/ \E r \in DOMAIN runs : ProcessQueue(r)
  \/ \E r \in DOMAIN runs : Check(r)
  \/ \E r \in DOMAIN runs : Click(r)
  \/ \E r \in DOMAIN runs : Fallback(r)
  \/ \E r \in DOMAIN runs : Questions(r)
  \/ \E r \in DOMAIN runs : Success(r)
  \/ \E r \in DOMAIN runs : Resolve(r)
  \/ \E r \in DOMAIN runs : Fill(r)
  \/ \E r \in DOMAIN runs : Submit(r)
  \/ \E r \in DOMAIN runs : Delay(r)

SpecQueue == InitQueue /\ [][NextQueue]_vars

-----------------------------------------------------------------------------
(***************************************************************************)
(* The claims.                                                             *)
(***************************************************************************)

\* The job indices 0, 1, ..., k-1 in order.
FirstJobs(k) == [j \in 1 .. k |-> j - 1]

Total(r) == runs[r].applied + runs[r].failed + runs[r].skipped

Range(f) == { f[k] : k \in DOMAIN f }

\* The counter the queue should credit an attempt that settled with out.
Credit(out) ==
  IF out.threw THEN "failed"
  ELSE IF out.res.success THEN "applied"
  ELSE IF out.res.alreadyApplied THEN "skipped"
  ELSE "failed"

\* The current attempt of r got pending screening questions from the scraper.
GotQuestions(r) ==
  /\ runs[r].sres.settled /\ ~runs[r].sres.threw
  /\ runs[r].sres.res.questions
  /\ Len(runs[r].qs) > 0

\* C1: a processJobQueue run that stop() did not cancel and that returned has
\* attempted exactly jobs[0 .. min(N,C)-1], and its returned counts add up to
\* min(N,C), whatever the outcome of each attempt.
C1_CountsAddUpToBound ==
  \A r \in DOMAIN runs :
    (runs[r].pc = "returned" /\ ~runs[r].stopped) =>
      /\ runs[r].attempted = FirstJobs(runs[r].max)
      /\ Total(r) = runs[r].max

\* C2: whenever a processJobQueue invocation ends, it ends by returning, with
\* isRunning false and onSessionComplete emitted exactly once, carrying the
\* run's final applied and failed counts.
C2_EndsIdleWithOneSessionEvent ==
  [][\A r \in DOMAIN runs :
       (runs[r].pc \notin {"returned", "rejected"}
          /\ runs'[r].pc \in {"returned", "rejected"}) =>
         /\ runs'[r].pc = "returned"
         /\ ~isRunning'
         /\ runs'[r].sessions = << <<runs'[r].applied, runs'[r].failed>> >>]_vars

\* C3: once stop() has been called during a run, the run starts no further
\* apply attempt, and when it ends isRunning is false.
C3_StopTakesEffectAtJobBoundary ==
  [][\A r \in DOMAIN runs :
       runs[r].stopped =>
         /\ runs'[r].attempted = runs[r].attempted
         /\ (runs[r].pc \notin {"returned", "rejected"}
               /\ runs'[r].pc \in {"returned", "rejected"}) => ~isRunning']_vars

\* C4: within one invocation the jobs are attempted one at a time and in the
\* order supplied: at most one attempt is in flight, the attempts made so far
\* are on jobs[0], jobs[1], ... without repetition or gap, and an attempt
\* starts only when the previous one (screening questions and submission
\* included) has settled.
C4_SequentialInOrder ==
  [][\A r \in DOMAIN runs :
       /\ runs'[r].inflight \in {0, 1}
       /\ runs'[r].attempted = FirstJobs(Len(runs'[r].attempted))
       /\ Len(runs'[r].attempted) <= runs'[r].max
       /\ runs'[r].attempted # runs[r].attempted =>
            /\ runs[r].inflight = 0
            /\ runs[r].pc \in {"idle", "delay"}
            /\ Len(runs'[r].attempted) = Len(runs[r].attempted) + 1]_vars

\* C4's case: a second job's attempt, with screening questions answered and
\* the application submitted, after the first job's attempt.
C4_Witness ==
  \E r \in DOMAIN runs :
    /\ runs[r].attempted = <<0, 1>>
    /\ runs[r].out.settled
    /\ Len(runs[r].fills) > 0
    /\ runs[r].submits = 1

\* C5: an iteration whose attempt has settled has incremented exactly one
\* counter, exactly once: applied on success, else skipped on alreadyApplied,
\* else failed; failed when the attempt threw.
C5_OneCounterPerIteration ==
  \A r \in DOMAIN runs :
    runs[r].out.settled => runs[r].incs = <<Credit(runs[r].out)>>

\* C6: an attempt that throws does not end the run: the job is counted as
\* failed, onError is emitted, and the run goes on to the next job of the
\* bounded queue unless stop() was requested.
C6_ThrownAttemptDoesNotEndRun ==
  \A r \in DOMAIN runs :
    (runs[r].out.settled /\ runs[r].out.threw) =>
      /\ runs[r].pc # "rejected"
      /\ runs[r].incs = <<"failed">>
      /\ runs[r].erred
      /\ runs[r].pc = "returned" =>
           (Len(runs[r].attempted) = runs[r].max \/ runs[r].stopped)

\* C7: a run during which a callback threw is not aborted, returns counts
\* that add up to the jobs it attempted (all of the bounded queue unless
\* stop() was called), and ends with isRunning false.
C7_ThrowingCallbackChangesNothing ==
  \A r \in DOMAIN runs :
    runs[r].cbThrew =>
      /\ runs[r].pc # "rejected"
      /\ runs[r].pc = "returned" =>
           /\ ~isRunning
           /\ Total(r) = Len(runs[r].attempted)
           /\ ~runs[r].stopped => runs[r].attempted = FirstJobs(runs[r].max)

\* C8: when the scraper returned pending questions and the resolver answered
\* every one, fillScreeningAnswer was called once per question, in order,
\* with the question's id and the resolver's answer, then submitApplication
\* once, after the last fill; the outcome's success is submitApplication's
\* result, it carries the questions, and the job is counted applied if the
\* submission succeeded and failed otherwise.
C8_AnsweredQuestionsFilledAndSubmitted ==
  \A r \in DOMAIN runs :
    (runs[r].out.settled /\ GotQuestions(r)
       /\ Len(runs[r].answered) = Len(runs[r].qs)) =>
      /\ runs[r].fills = [k \in 1 .. Len(runs[r].qs) |->
                            <<runs[r].qs[k].id, runs[r].answered[k][2]>>]
      /\ runs[r].submits = 1
      /\ runs[r].fillsAtSubmit = Len(runs[r].qs)
      /\ ~runs[r].out.threw =>
           /\ runs[r].out.res.success = (runs[r].submitRes = "true")
           /\ runs[r].out.res.questions
      /\ runs[r].incs = <<IF runs[r].submitRes = "true" THEN "applied" ELSE "failed">>

\* C9: when the resolver threw for a question, that question is not filled
\* and its answer stays unset, every other question is still resolved and
\* filled, and submitApplication is still called exactly once.
C9_ResolverFailureSkipsOneQuestion ==
  \A r \in DOMAIN runs :
    (runs[r].out.settled /\ GotQuestions(r) /\ runs[r].rthrew # <<>>) =>
      /\ \A k \in 1 .. Len(runs[r].qs) :
           LET q == runs[r].qs[k]
           IN IF q.id \in Range(runs[r].rthrew)
              THEN /\ q.answer = 0
                   /\ \A f \in Range(runs[r].fills) : f[1] # q.id
              ELSE <<q.id, Reply(q.id)>> \in Range(runs[r].fills)
      /\ runs[r].submits = 1

\* C10: when the already-applied marker is on the page, scraper.applyToJob
\* returns {success:false, alreadyApplied:true} without a click on the apply
\* control, without extracting questions and without a submission, and the
\* queue counts the job as skipped.
C10_AlreadyAppliedIsSkipped ==
  \A r \in DOMAIN runs :
    (runs[r].out.settled /\ runs[r].marker) =>
      /\ runs[r].sres = Returned(Result(FALSE, TRUE, "none", FALSE))
      /\ runs[r].clicks = 0
      /\ runs[r].extracted = 0
      /\ runs[r].submits = 0
      /\ runs[r].incs = <<"skipped">>

\* C11: when the scraper's applyToJob returned a result that carries no
\* screening questions, manager.applyToJob returns that very result, and the
\* resolver, fillScreeningAnswer and submitApplication were not called.
C11_TerminalResultReturnedUnchanged ==
  \A r \in DOMAIN runs :
    (runs[r].out.settled /\ runs[r].sres.settled /\ ~runs[r].sres.threw
       /\ ~(runs[r].sres.res.questions /\ Len(runs[r].qs) > 0)) =>
      /\ runs[r].out = runs[r].sres
      /\ runs[r].answered = <<>>
      /\ runs[r].rthrew = <<>>
      /\ runs[r].fills = <<>>
      /\ runs[r].submits = 0

\* C11's case: the scraper reported containers but extracted no question
\* from them, and the manager returned that result.
C11_Witness ==
  \E r \in DOMAIN runs :
    /\ runs[r].sres.settled /\ ~runs[r].sres.threw
    /\ runs[r].sres.res.questions /\ runs[r].qs = <<>>
    /\ runs[r].extracted = 1
    /\ runs[r].out = runs[r].sres

\* C12: an apply attempt made with no profile set, or for a source with no
\* registered scraper, throws before anything else happens: the scraper and
\* the resolver are not called, no page interaction takes place, no
\* application event is emitted and the scraper's state is unchanged.
C12_PreconditionsFailFast ==
  [][\A r \in DOMAIN runs :
       (Len(runs'[r].attempted) > Len(runs[r].attempted)
          /\ (~profile \/ runs'[r].src \notin Registered)) =>
         /\ runs'[r].out = Threw
         /\ runs'[r].sres = Pending
         /\ state' = state
         /\ runs'[r].starts = 0 /\ runs'[r].completes = <<>>
         /\ runs'[r].clicks = 0 /\ runs'[r].extracted = 0
         /\ runs'[r].answered = <<>> /\ runs'[r].rthrew = <<>>
         /\ runs'[r].fills = <<>> /\ runs'[r].submits = 0]_vars

\* C12's cases: an attempt thrown back for want of a profile while the
\* browser is open, and one thrown back for an unregistered source while a
\* profile is set and the browser is open.
C12_Witness ==
  \E r \in DOMAIN runs :
    /\ runs[r].out = Threw /\ runs[r].sres = Pending
    /\ page
    /\ runs[r].attempted = <<0, 1>>
    /\ \/ ~profile /\ runs[r].src \in Registered
       \/ profile /\ runs[r].src \notin Registered

\* C13: every attempt after the first starts when exactly one delay has been
\* awaited since the previous attempt, and a delay is awaited only after an
\* attempt that is not the last of the bounded queue and only when stop()
\* has not been requested.
C13_OneDelayBetweenAttempts ==
  [][\A r \in DOMAIN runs :
       /\ runs'[r].attempted # runs[r].attempted =>
            runs[r].delays = Len(runs[r].attempted)
       /\ runs'[r].delays # runs[r].delays =>
            /\ runs'[r].delays = runs[r].delays + 1
            /\ runs'[r].delays = Len(runs'[r].attempted)
            /\ runs'[r].delays < runs'[r].max
            /\ ~runs'[r].stopped]_vars

\* C13's case: a run of two attempts that returned, the second one
\* successful, with one delay awaited in all.
C13_Witness ==
  \E r \in DOMAIN runs :
    /\ runs[r].pc = "returned"
    /\ runs[r].attempted = <<0, 1>>
    /\ runs[r].out.settled /\ ~runs[r].out.threw /\ runs[r].out.res.success
    /\ runs[r].delays = 1

\* C14: onQueueProgress(i+1, T) with T = min(jobs.length, cap) is emitted
\* before the attempt on jobs[i], so the events emitted so far are (1,T),
\* (2,T), ... in order, one per attempt begun, and a run that ended without
\* stop() having been called has emitted all of (1,T) ... (T,T); when every
\* attempt succeeded the run returned {applied: T, failed: 0, skipped: 0}.
C14_ProgressBeforeEachAttempt ==
  \A r \in DOMAIN runs :
    /\ Len(runs[r].progress) >= Len(runs[r].attempted)
    /\ runs[r].progress = [k \in 1 .. Len(runs[r].progress) |-> <<k, Min(runs[r].n, cap)>>]
    /\ (runs[r].pc \in {"returned", "rejected"} /\ ~runs[r].stopped) =>
         Len(runs[r].progress) = Min(runs[r].n, cap)
    /\ (runs[r].pc = "returned" /\ ~runs[r].stopped
          /\ runs[r].failed = 0 /\ runs[r].skipped = 0) =>
         runs[r].applied = Min(runs[r].n, cap)

\* The four shapes of an ApplyResult.
Shapes == {"success", "alreadyApplied", "error", "questions"}

HasShape(res, shape) ==
  CASE shape = "success"        -> res.success
    [] shape = "alreadyApplied" -> res.alreadyApplied
    [] shape = "error"          -> res.error # "none" /\ ~res.questions
    [] shape = "questions"      -> res.questions

ShapesOf(res) == { shape \in Shapes : HasShape(res, shape) }

\* C15 as stated: every outcome returned by the scraper's applyToJob and by
\* manager.applyToJob has exactly one of the four shapes.
C15_ExactlyOneShape ==
  \A r \in DOMAIN runs :
    /\ (runs[r].sres.settled /\ ~runs[r].sres.threw) =>
         Cardinality(ShapesOf(runs[r].sres.res)) = 1
    /\ (runs[r].out.settled /\ ~runs[r].out.threw) =>
         Cardinality(ShapesOf(runs[r].out.res)) = 1

\* C15 amended: every outcome returned by the scraper's applyToJob, and every
\* outcome manager.applyToJob returns without having called
\* submitApplication, has exactly one of the four shapes; the outcome
\* manager.applyToJob returns after submitApplication is the submission's
\* success flag together with the question list, with no error and no
\* alreadyApplied flag.
C15_ExactlyOneShapeUnlessSubmitted ==
  \A r \in DOMAIN runs :
    /\ (runs[r].sres.settled /\ ~runs[r].sres.threw) =>
         Cardinality(ShapesOf(runs[r].sres.res)) = 1
    /\ (runs[r].out.settled /\ ~runs[r].out.threw) =>
         IF runs[r].submits = 0
         THEN Cardinality(ShapesOf(runs[r].out.res)) = 1
         ELSE /\ runs[r].out.res.success = (runs[r].submitRes = "true")
              /\ runs[r].out.res.questions
              /\ runs[r].out.res.error = "none"
              /\ ~runs[r].out.res.alreadyApplied

\* C15's case: an outcome returned after a successful submission, which is
\* success and carries the questions.
C15_Witness ==
  \E r \in DOMAIN runs :
    /\ runs[r].out.settled /\ ~runs[r].out.threw
    /\ runs[r].submits = 1
    /\ ShapesOf(runs[r].out.res) = {"success", "questions"}

\* C16: the step in which the scraper's applyToJob returns increments
\* appliedCount by one exactly when the result is a success, increments
\* failedCount by one exactly when it is a failure without questions (apply
\* button not found, submission unclear, caught exception), and leaves both
\* counters alone when the result carries screening questions.
C16_SessionCountersFollowResult ==
  [][\A r \in DOMAIN runs :
       (runs[r].sres = Pending /\ runs'[r].sres.settled /\ ~runs'[r].sres.threw) =>
         LET res == runs'[r].sres.res
         IN /\ state'.appliedCount = state.appliedCount + (IF res.success THEN 1 ELSE 0)
            /\ state'.failedCount = state.failedCount +
                 (IF ~res.success /\ ~res.alreadyApplied /\ ~res.questions THEN 1 ELSE 0)]_vars

\* The positions of scraper.applyToJob at which a page interaction is awaited.
OnPage == {"chk", "click", "fallback", "ques", "succ"}

\* C17: a scraper applyToJob attempt has emitted onApplicationStart exactly
\* once by the time it touches the page and when it returns, and an attempt
\* that returned a terminal success or failure has emitted
\* onApplicationComplete exactly once, with the success flag of the outcome.
C17_StartAndCompleteEvents ==
  \A r \in DOMAIN runs :
    /\ runs[r].pc \in OnPage => runs[r].starts = 1
    /\ (runs[r].sres.settled /\ ~runs[r].sres.threw) =>
         /\ runs[r].starts = 1
         /\ (~runs[r].sres.res.alreadyApplied /\ ~runs[r].sres.res.questions) =>
              runs[r].completes = <<runs[r].sres.res.success>>

\* The type the precedence select > radio > multiselect > checkbox > number
\* > text gives a container.
TypeByPrecedence(c) ==
  IF c.select THEN "select"
  ELSE IF c.radios > 0 THEN "radio"
  ELSE IF c.checkboxes > 1 THEN "multiselect"
  ELSE IF c.checkboxes = 1 THEN "checkbox"
  ELSE IF c.number THEN "number"
  ELSE "text"

\* C18: every question getScreeningQuestions reports has the type of the
\* highest-precedence control kind present in its container, by select >
\* radio > multiselect > checkbox > number > text.
C18_TypeByFixedPrecedence ==
  fm.pc \in {"extracted", "filled", "rejected"} =>
    \A k \in 1 .. Len(fm.questions) :
      fm.questions[k].type = TypeByPrecedence(fm.form[ParseIndex(fm.questions[k].id) + 1])

\* The control a fill of a question of type t should act on in container c,
\* "none" when the container has no matching control.
KindFor(c, t, match) ==
  CASE t = "text"   -> IF c.text THEN "text" ELSE "none"
    [] t = "number" -> "number"
    [] t = "select" -> IF match THEN "select" ELSE "none"
    [] t = "radio"  -> IF match THEN "radio" ELSE "none"
    [] OTHER        -> "none"

\* C19: fillScreeningAnswer does not throw; called with the id of a reported
\* question it acts on the container the question was extracted from, on the
\* control kind that gave the question its type, or on nothing when that
\* container has no matching control; called with an id no container has, it
\* changes nothing.
C19_FillMatchesDetection ==
  fm.pc \in {"filled", "rejected"} =>
    /\ fm.pc # "rejected"
    /\ \A k \in 1 .. Len(fm.questions) :
         fm.questions[k].id = fm.fill.id =>
           /\ fm.fill.index + 1 \in 1 .. Len(fm.form)
           /\ fm.form[fm.fill.index + 1].label
           /\ fm.fill.kind =
                KindFor(fm.form[fm.fill.index + 1], fm.questions[k].type, fm.fill.match)
    /\ ParseIndex(fm.fill.id) + 1 > Len(fm.form) => fm.fill.kind = "none"

\* C20: on a scraper that stays initialized, waitForManualLogin does not
\* throw and stops polling once the timeout has elapsed (poll k begins
\* before the timeout, at least k-1 poll intervals after the start); it
\* returns true, with the session saved, only when its last poll, begun
\* before the timeout, saw the login indicator, and false only when the
\* timeout has elapsed and no poll saw it; a timeout of 0 returns false
\* without a poll, and a poll that hits a navigation error is followed by
\* the next delay.
C20_WaitForManualLogin ==
  page =>
    /\ lg.pc # "rejected"
    /\ lg.polls > 0 =>
         /\ lg.pollStart - lg.start < lg.timeout
         /\ PollInterval * (lg.polls - 1) <= lg.pollStart - lg.start
    /\ (lg.pc = "returned" /\ lg.result) =>
         lg.saved /\ lg.lastEnv = "in"
    /\ (lg.pc = "returned" /\ ~lg.result) =>
         /\ ~lg.seenIn
         /\ lg.now - lg.start >= lg.timeout
         /\ lg.timeout = 0 => lg.polls = 0
    /\ (lg.pc \in {"sleep", "returned"} /\ lg.polls > 0 /\ lg.lastEnv = "naverror") =>
         ~lg.result

\* C21: the scraper's applyToJob, fillScreeningAnswer and submitApplication
\* never throw, whatever the scraper's state: none of the calls the current
\* attempt made on them was rejected.
C21_ScraperMethodsNeverThrow ==
  \A r \in DOMAIN runs :
    /\ ~runs[r].sres.threw
    /\ runs[r].fillThrew = 0
    /\ runs[r].submitRes # "threw"

\* C22: while the scraper has no browser session (initialize not called or
\* failed, or the browser closed) processJobQueue emits no progress, begins
\* no apply attempt and counts no job, except the attempt that was already
\* in flight when the session went away.
C22_NoQueueWithoutSession ==
  [][\A r \in DOMAIN runs :
       /\ runs'[r].progress # runs[r].progress => page
       /\ runs'[r].attempted # runs[r].attempted => page
       /\ (runs'[r].applied + runs'[r].failed + runs'[r].skipped
             # runs[r].applied + runs[r].failed + runs[r].skipped) =>
            (page \/ runs[r].inflight = 1)]_vars

\* POST /process-queue, lines 381 and 416-435: the status of job j's
\* application record once the updates issued by run r's onProgress calls
\* are written; the record was "queued" when the run was started.
RecordStatus(r, j) ==
  LET ks == { k \in 1 .. Len(runs[r].reported) : runs[r].reported[k][1] = j }
  IN IF ks = {} THEN "queued"
     ELSE runs[r].reported[CHOOSE k \in ks : \A m \in ks : m <= k][2]

\* C23: when a queue run has returned, every job it attempted was reported
\* through onProgress, so its application record has left "queued" for
\* applied, failed or skipped, and the returned counts add up to the number
\* of jobs attempted.
C23_NoAttemptedJobDropped ==
  \A r \in DOMAIN runs :
    runs[r].pc = "returned" =>
      /\ \A k \in 1 .. Len(runs[r].attempted) :
           RecordStatus(r, runs[r].attempted[k]) \in {"applied", "failed", "skipped"}
      /\ Total(r) = Len(runs[r].attempted)

\* C29: SessionState.currentJob is non-null only while a scraper applyToJob
\* call is in flight, and is then the job that call is attempting; once the
\* call has left, by whichever exit path, currentJob is null.
C29_CurrentJobOnlyInFlight ==
  state.currentJob # NoJob =>
    \E r \in DOMAIN runs :
      /\ runs[r].pc \in OnPage
      /\ state.currentJob = <<r, JobAt(runs[r].i)>>

\* C30: the scraper's appliedCount equals the number of attempts made
\* through the manager whose final outcome was a success, the ones that
\* succeeded through the submission of screening answers included; the
\* attempts are those of the run, which counts each success as applied.
C30_AppliedCountMatchesSuccesses ==
  \A r \in DOMAIN runs :
    /\ state.appliedCount = runs[r].applied
    /\ runs[r].applied <= state.appliedCount

\* The dedup key of a listing: source + external id.
Key(l) == <<l.source, l.externalId>>

\* The listings a request's loop has been through.
Processed(req) == { req.jobs[k] : k \in 1 .. req.k - 1 }

\* C24: the jobs table holds at most one row per dedup key (source +
\* external id), and every listing a search or save request has been through
\* is in the table, so listings of different sources that share an external
\* id are both kept.
C24_OneListingPerDedupKey ==
  jb.pc = "open" =>
    /\ \A i, j \in 1 .. Len(jb.table) :
         i # j => Key(jb.table[i]) # Key(jb.table[j])
    /\ \A h \in Requests : \A l \in Processed(jb.reqs[h]) :
         \E i \in 1 .. Len(jb.table) : Key(jb.table[i]) = Key(l)

\* C28: getManager creates at most one JobScraperManager, and every handler
\* that got a manager from it holds the instance the module's variable
\* holds: all handlers hold the same instance and none was replaced.
C28_OneManagerPerProcess ==
  gm.pc = "open" =>
    /\ gm.created <= 1
    /\ \A h \in Handlers :
         gm.calls[h].pc = "returned" => gm.calls[h].got = gm.manager

\* The applications run r has called applyToJob on.
AttemptedJobs(r) ==
  { runs[r].jobs[runs[r].attempted[k] + 1] : k \in 1 .. Len(runs[r].attempted) }

\* C25: POST /process-queue starts no processJobQueue while an earlier one
\* is still running: at most one run is under way at a time, so two runs
\* that are under way together have attempted no job in common.
C25_QueueRunsSerialized ==
  /\ Cardinality({ r \in DOMAIN runs : Running(r) }) <= 1
  /\ \A r, q \in DOMAIN runs :
       (r # q /\ Running(r) /\ Running(q)) =>
         AttemptedJobs(r) \cap AttemptedJobs(q) = {}

\* C26: whenever a processJobQueue invocation has started and not yet
\* returned, isRunning is true, also when another invocation has ended
\* meanwhile.
C26_RunningWhileAnyRunIs ==
  (\E r \in DOMAIN runs : Running(r)) => isRunning

\* C27: once stop() has been called during a run, that run starts no further
\* apply attempt, whatever other processJobQueue invocation begins
\* afterwards.
C27_StopIsNeverLost ==
  [][\A r \in DOMAIN runs :
       runs[r].stopped => runs'[r].attempted = runs[r].attempted]_vars

=============================================================================
